---- MODULE Spec2Model ----
(***************************************************************************)
(* Hoop Detective: the guessing session of src/main.go (attempt budget,    *)
(* wall-clock deadline, input reader raced against a timer, no-repeat hint *)
(* allocator) and the name lookup of src/player.go.                        *)
(*                                                                         *)
(* Strings are sequences of one-character strings, so that trimming,       *)
(* lower-casing and substring search are computed as the code computes     *)
(* them.  Time is counted in clock ticks since gameStartTime.              *)
(***************************************************************************)
EXTENDS Integers, Sequences, FiniteSets, TLC

VARIABLES
    pc,                  \* position of main: "top", "select", "blocked", "recv", "timeout", "done"
    outcome,             \* "Active", "Won", "LostByAttempts", "LostByTime", "Quit", "FellOut"
    target,              \* index into players of the mystery player (main.go:27)
    attempts,            \* main.go:28
    hintsUsed,           \* main.go:30
    usedHintAttributes,  \* main.go:32, the keys mapped to true
    now,                 \* wall clock, ticks since gameStartTime
    readers,             \* reader goroutines started and not yet finished (main.go:71)
    inputChan,           \* buffered channel of the current turn (main.go:70)
    stdinClosed,         \* the input stream has reported a failed read
    scanFailed,          \* the line last sent on inputChan came from a failed Scan
    timerFired,          \* the timer of main.go:160 has delivered
    lateArrival,         \* a line was sent on inputChan after the timer had delivered
    promptNo,            \* attempt number shown by the last prompt (0 before the first)
    nameHintsShown,      \* levels of name hint displayed so far in this run
    out,                 \* what the last step of main printed and called
    allocCalls,          \* calls of showUniqueRandomAttributeHint made by the allocator driver
    call                 \* a function called on its own: its name, arguments and result

vars == <<pc, outcome, target, attempts, hintsUsed, usedHintAttributes, now,
          readers, inputChan, stdinClosed, scanFailed, timerFired, lateArrival,
          promptNo, nameHintsShown, out, allocCalls, call>>

----------------------------------------------------------------------------
(* Bounds of the model                                                     *)

\* clock ticks from gameStartTime to the deadline (the resolution of the clock)
DeadlineTick == 2

\* ticks the clock may run past the deadline
MaxOverrun == 1

\* calls the allocator driver makes
MaxAllocCalls == 10

\* draft years compared: those of the first fallback record and YearSpan after
YearSpan == 4

\* draft rounds compared: 0..MaxRound
MaxRound == 2

\* draft numbers compared: 0..MaxPick
MaxPick == 7

\* records in a directory searched on its own
MaxDirLen == 2

\* letters in a part of a name hinted on its own
MaxPartLen == 7

\* parts in a name hinted on its own
MaxParts == 2

----------------------------------------------------------------------------
(* Program constants                                                       *)

maxAttempts == 8

maxHints == 3

\* gameStartTime.Add(gameDuration), in clock ticks; gameStartTime is 0
gameEndTime == DeadlineTick

\* inputChan made without a buffer: it holds no line
inputChanCap_Unbuffered == Len(<<>>)

\* capacity of inputChan
inputChanCap == 1

\* the partial-match floor of findPlayerByName
minPartialLen == 3

----------------------------------------------------------------------------
(* Strings                                                                 *)

UpperLetters == <<"A","B","C","D","E","F","G","H","I","J","K","L","M",
                  "N","O","P","Q","R","S","T","U","V","W","X","Y","Z">>

LowerLetters == <<"a","b","c","d","e","f","g","h","i","j","k","l","m",
                  "n","o","p","q","r","s","t","u","v","w","x","y","z">>

WhiteSpace == {" ", "\t"}

ToLowerChar(c) ==
    IF \E i \in 1..Len(UpperLetters) : UpperLetters[i] = c
    THEN LowerLetters[CHOOSE i \in 1..Len(UpperLetters) : UpperLetters[i] = c]
    ELSE c

\* strings.ToLower
ToLower(s) == [i \in 1..Len(s) |-> ToLowerChar(s[i])]

\* strings.TrimSpace
TrimSpace(s) ==
    LET keep == {i \in 1..Len(s) : s[i] \notin WhiteSpace}
    IN  IF keep = {} THEN <<>>
        ELSE SubSeq(s, CHOOSE i \in keep : \A j \in keep : i <= j,
                       CHOOSE i \in keep : \A j \in keep : i >= j)

\* strings.Contains
Contains(s, sub) ==
    \E i \in 0..(Len(s) - Len(sub)) : SubSeq(s, i + 1, i + Len(sub)) = sub

----------------------------------------------------------------------------
(* Player directory                                                        *)

NameLeBron == <<"L","e","B","r","o","n"," ","J","a","m","e","s">>

NameJordan == <<"M","i","c","h","a","e","l"," ","J","o","r","d","a","n">>

\* the first records of the fallback data set
players ==
    << [Name |-> NameLeBron, Team |-> "Los Angeles Lakers", Position |-> "SF",
        Height |-> "6'9", College |-> "None", DraftYear |-> 2003,
        DraftRound |-> 1, DraftNumber |-> 1, JerseyNumber |-> "6", Country |-> "USA"],
       [Name |-> NameJordan, Team |-> "Retired", Position |-> "SG",
        Height |-> "6'6", College |-> "North Carolina", DraftYear |-> 1984,
        DraftRound |-> 1, DraftNumber |-> 3, JerseyNumber |-> "23", Country |-> "USA"] >>

NotFound == [found |-> FALSE, index |-> 0]

\* first pass of findPlayerByName: case-insensitive equality
ExactMatches(dir, lowerName) ==
    {i \in 1..Len(dir) : ToLower(dir[i].Name) = lowerName}

\* PartialMatch with a floor of 2 characters
PartialMatch_FloorTwo(playerLower, lowerName) ==
    \/ Contains(playerLower, lowerName) /\ Len(lowerName) >= 2
    \/ Contains(lowerName, playerLower) /\ Len(playerLower) >= 2

\* second pass of findPlayerByName: substring in either direction, floor of 3
PartialMatch(playerLower, lowerName) ==
    \/ Contains(playerLower, lowerName) /\ Len(lowerName) >= minPartialLen
    \/ Contains(lowerName, playerLower) /\ Len(playerLower) >= minPartialLen

PartialMatches(dir, lowerName) ==
    {i \in 1..Len(dir) : PartialMatch(ToLower(dir[i].Name), lowerName)}

First(S) == CHOOSE i \in S : \A j \in S : i <= j

\* findPlayerByNameIn with the two passes merged into one loop
findPlayerByNameIn_SinglePass(dir, name) ==
    LET lowerName == ToLower(TrimSpace(name))
        matches == ExactMatches(dir, lowerName) \cup PartialMatches(dir, lowerName)
    IN  IF matches # {}
        THEN [found |-> TRUE, index |-> First(matches)]
        ELSE NotFound

\* findPlayerByName over the directory the package variable players holds
findPlayerByNameIn(dir, name) ==
    LET lowerName == ToLower(TrimSpace(name))
    IN  IF ExactMatches(dir, lowerName) # {}
        THEN [found |-> TRUE, index |-> First(ExactMatches(dir, lowerName))]
        ELSE IF PartialMatches(dir, lowerName) # {}
        THEN [found |-> TRUE, index |-> First(PartialMatches(dir, lowerName))]
        ELSE NotFound

findPlayerByName(name) == findPlayerByNameIn(players, name)

----------------------------------------------------------------------------
(* Lines the user may type                                                 *)

LineQuit == <<" ","Q","u","i","t">>

LineHint == <<"H","I","N","T"," ">>

LineLeBron == <<"l","e","b","r","o","n"," ","j","a","m","e","s">>

LineJor == <<"J","o","r">>

LineJo == <<"j","o">>

LineEmpty == <<>>

Lines == {LineQuit, LineHint, LineLeBron, LineJor, LineJo, LineEmpty}

----------------------------------------------------------------------------
(* Hint allocator                                                          *)

\* allAttributes with two attributes only
allAttributes_Two == <<"team", "position">>

allAttributes == <<"team", "position", "height", "college", "draftyear",
                   "draftround", "draftnumber", "jerseynumber", "country">>

\* availableAttributes without the filter on the used map
availableAttributes_Unfiltered(usedAttributes) == allAttributes

\* the filter loop of showUniqueRandomAttributeHint
availableAttributes(usedAttributes) ==
    SelectSeq(allAttributes, LAMBDA attr : attr \notin usedAttributes)

\* showUniqueRandomAttributeHint without usedAttributes[selectedAttribute] = true
showUniqueRandomAttributeHint_NotMarked(usedAttributes) ==
    LET avail == availableAttributes(usedAttributes)
    IN  IF Len(avail) = 0
        THEN {[given |-> FALSE, attr |-> "none", used |-> usedAttributes]}
        ELSE {[given |-> TRUE, attr |-> avail[i],
               used |-> usedAttributes] : i \in 1..Len(avail)}

\* every result rand.Intn can produce: whether a hint was given, which
\* attribute was printed, and the map after the call
showUniqueRandomAttributeHint(usedAttributes) ==
    LET avail == availableAttributes(usedAttributes)
    IN  IF Len(avail) = 0
        THEN {[given |-> FALSE, attr |-> "none", used |-> usedAttributes]}
        ELSE {[given |-> TRUE, attr |-> avail[i],
               used |-> usedAttributes \cup {avail[i]}] : i \in 1..Len(avail)}

----------------------------------------------------------------------------
(* Formatting                                                              *)

Digits == <<"0","1","2","3","4","5","6","7","8","9">>

RECURSIVE DecimalDigits(_)
DecimalDigits(n) ==
    IF n < 10 THEN <<Digits[n + 1]>>
    ELSE Append(DecimalDigits(n \div 10), Digits[(n % 10) + 1])

\* fmt.Sprintf("%d", n)
Itoa(n) == IF n < 0 THEN <<"-">> \o DecimalDigits(-n) ELSE DecimalDigits(n)

\* strings.Repeat of a one-character string
Repeat(c, n) == [i \in 1..n |-> c]

RECURSIVE Join(_, _)
\* strings.Join
Join(elems, sep) ==
    IF Len(elems) = 0 THEN <<>>
    ELSE IF Len(elems) = 1 THEN elems[1]
    ELSE elems[1] \o sep \o Join(Tail(elems), sep)

RECURSIVE Fields(_)
\* strings.Fields: the maximal runs of non-space characters
Fields(s) ==
    IF s = <<>> THEN <<>>
    ELSE IF Head(s) \in WhiteSpace THEN Fields(Tail(s))
    ELSE LET stops == {i \in 1..Len(s) : s[i] \in WhiteSpace}
             n == IF stops = {} THEN Len(s)
                  ELSE (CHOOSE i \in stops : \A j \in stops : i <= j) - 1
         IN  <<SubSeq(s, 1, n)>> \o Fields(SubSeq(s, n + 1, Len(s)))

----------------------------------------------------------------------------
(* Attribute comparator                                                    *)

\* the coloured circles that open every field of a ComparisonResult
Green == "green"

Yellow == "yellow"

Red == "red"

abs(x) == IF x < 0 THEN -x ELSE x

\* a field compared by string equality; the strings the program never looks
\* into (team, position, ...) are kept whole
CompareString(g, t) == IF g = t THEN <<Green, " ", g>> ELSE <<Red, " ", g>>

\* CompareName with the marks exchanged
CompareName_Exchanged(g, t) == IF g = t THEN <<Red, " ">> \o g ELSE <<Green, " ">> \o g

CompareName(g, t) == IF g = t THEN <<Green, " ">> \o g ELSE <<Red, " ">> \o g

\* CompareDraftYear with a tolerance of 3 years
CompareDraftYear_Wide(g, t) ==
    IF g = t THEN <<Green, " ">> \o Itoa(g)
    ELSE IF abs(g - t) <= 3 THEN <<Yellow, " ">> \o Itoa(g)
    ELSE <<Red, " ">> \o Itoa(g)

CompareDraftYear(g, t) ==
    IF g = t THEN <<Green, " ">> \o Itoa(g)
    ELSE IF abs(g - t) <= 2 THEN <<Yellow, " ">> \o Itoa(g)
    ELSE <<Red, " ">> \o Itoa(g)

Undrafted == <<"U","n","d","r","a","f","t","e","d">>

NotApplicable == <<"N","/","A">>

\* CompareDraftRound without the special case of a red undrafted guess
CompareDraftRound_RedZero(g, t) ==
    IF g = t
    THEN IF g = 0 THEN <<Green, " ">> \o Undrafted ELSE <<Green, " ">> \o Itoa(g)
    ELSE <<Red, " ">> \o Itoa(g)

CompareDraftRound(g, t) ==
    IF g = t
    THEN IF g = 0 THEN <<Green, " ">> \o Undrafted ELSE <<Green, " ">> \o Itoa(g)
    ELSE IF g = 0 THEN <<Red, " ">> \o Undrafted ELSE <<Red, " ">> \o Itoa(g)

\* CompareDraftNumber without the guards on the undrafted sentinel
CompareDraftNumber_Unguarded(g, t) ==
    IF g = t
    THEN IF g = 0 THEN <<Green, " ">> \o NotApplicable ELSE <<Green, " ">> \o Itoa(g)
    ELSE IF abs(g - t) <= 5
    THEN <<Yellow, " ">> \o Itoa(g)
    ELSE IF g = 0 THEN <<Red, " ">> \o NotApplicable ELSE <<Red, " ">> \o Itoa(g)

CompareDraftNumber(g, t) ==
    IF g = t
    THEN IF g = 0 THEN <<Green, " ">> \o NotApplicable ELSE <<Green, " ">> \o Itoa(g)
    ELSE IF g # 0 /\ t # 0 /\ abs(g - t) <= 5
    THEN <<Yellow, " ">> \o Itoa(g)
    ELSE IF g = 0 THEN <<Red, " ">> \o NotApplicable ELSE <<Red, " ">> \o Itoa(g)

compareWithTarget(guess, targetPlayer) ==
    [Name         |-> CompareName(guess.Name, targetPlayer.Name),
     Team         |-> CompareString(guess.Team, targetPlayer.Team),
     Position     |-> CompareString(guess.Position, targetPlayer.Position),
     Height       |-> CompareString(guess.Height, targetPlayer.Height),
     College      |-> CompareString(guess.College, targetPlayer.College),
     DraftYear    |-> CompareDraftYear(guess.DraftYear, targetPlayer.DraftYear),
     DraftRound   |-> CompareDraftRound(guess.DraftRound, targetPlayer.DraftRound),
     DraftNumber  |-> CompareDraftNumber(guess.DraftNumber, targetPlayer.DraftNumber),
     JerseyNumber |-> CompareString(guess.JerseyNumber, targetPlayer.JerseyNumber),
     Country      |-> CompareString(guess.Country, targetPlayer.Country)]

----------------------------------------------------------------------------
(* Name hints                                                              *)

LettersNote(n) ==
    <<" ","(">> \o Itoa(n) \o <<" ","l","e","t","t","e","r","s",")">>

\* PrefixLen with < for <=
PrefixLen_Strict(n) == IF n < 3 THEN 1 ELSE IF n < 5 THEN 2 ELSE 3

\* the number of letters of a name part that level 2 shows
PrefixLen(n) == IF n <= 3 THEN 1 ELSE IF n <= 5 THEN 2 ELSE 3

\* the level-1 hint of one name part
FirstLetter(part) == <<part[1], "_">>

\* Pattern with one underscore for every letter of the part
Pattern_FullPadding(part) ==
    SubSeq(part, 1, PrefixLen(Len(part)))
      \o Repeat("_", Len(part))
      \o LettersNote(Len(part))

\* the level-2 hint of one name part
Pattern(part) ==
    SubSeq(part, 1, PrefixLen(Len(part)))
      \o Repeat("_", Len(part) - PrefixLen(Len(part)))
      \o LettersNote(Len(part))

getNameHint(fullName, hintLevel) ==
    LET nameParts == Fields(fullName)
    IN  IF Len(nameParts) = 0 THEN <<"U","n","k","n","o","w","n">>
        ELSE IF hintLevel = 2
        THEN Join([i \in 1..Len(nameParts) |-> Pattern(nameParts[i])], <<" ">>)
        ELSE Join([i \in 1..Len(nameParts) |-> FirstLetter(nameParts[i])], <<" ">>)

----------------------------------------------------------------------------
(* Decisions of the session loop                                           *)

\* for attempts < maxAttempts
LoopCondition(att) == att < maxAttempts

\* TimeIsUp with the check at the top of the loop left out
TimeIsUp_Never(currentTime) == FALSE

\* currentTime.After(gameEndTime)
TimeIsUp(currentTime) == currentTime > gameEndTime

\* what the reader goroutine sends
ScanSend(ok, text) == IF ok THEN text ELSE <<>>

IsQuit(guess) == ToLower(guess) = <<"q","u","i","t">>

IsHint(guess) == ToLower(guess) = <<"h","i","n","t">>

\* HintBudgetExhausted with > for >=
HintBudgetExhausted_OffByOne(h) == h > maxHints

\* HintBudgetExhausted with the refusal left out
HintBudgetExhausted_Never(h) == FALSE

HintBudgetExhausted(h) == h >= maxHints

\* AttemptsAfterGuess with attempts++ placed before the lookup
AttemptsAfterGuess_Always(att, found) == att + 1

\* attempts++ is reached only past the not-found continue
AttemptsAfterGuess(att, found) == IF found THEN att + 1 ELSE att

\* IsCorrect with != for ==
IsCorrect_Inverted(guessIndex, targetIndex) ==
    players[guessIndex].Name # players[targetIndex].Name

\* guessedPlayer.Name == target.Name
IsCorrect(guessIndex, targetIndex) ==
    players[guessIndex].Name = players[targetIndex].Name

\* AttemptsExhausted with > for ==
AttemptsExhausted_OffByOne(att) == att > maxAttempts

\* AttemptsExhausted with the game-over branch left out
AttemptsExhausted_Never(att) == FALSE

AttemptsExhausted(att) == att = maxAttempts

\* GuessVerdict with the attempts check placed before the win check
GuessVerdict_ExhaustedFirst(correct, att) ==
    IF AttemptsExhausted(att) THEN "LostByAttempts"
    ELSE IF correct THEN "Won"
    ELSE "Active"

\* what a scored guess makes of the session: the win check, then the
\* attempts check
GuessVerdict(correct, att) ==
    IF correct THEN "Won"
    ELSE IF AttemptsExhausted(att) THEN "LostByAttempts"
    ELSE "Active"

\* NameHintLevel with the two levels exchanged
NameHintLevel_Exchanged(att) == IF att = 4 THEN 2 ELSE IF att = 6 THEN 1 ELSE 0

\* NameHintLevel with the checkpoints one attempt late
NameHintLevel_Late(att) == IF att = 5 THEN 1 ELSE IF att = 7 THEN 2 ELSE 0

\* the level of name hint printed after a scored, non-final guess; 0 for none
NameHintLevel(att) == IF att = 4 THEN 1 ELSE IF att = 6 THEN 2 ELSE 0

\* AfterTimer with the return missing: the loop goes on
AfterTimer_NoReturn == [pc |-> "top", outcome |-> "Active"]

\* AfterTimer with the message printed and the return missing
AfterTimer_AnnouncedNoReturn == [pc |-> "top", outcome |-> "LostByTime"]

\* the timer branch of the select prints and returns
AfterTimer == [pc |-> "done", outcome |-> "LostByTime"]

NoCall == [fn |-> "none"]

\* WonReport with the hints line printed for more than one hint only
WonReport_HintsAboveOne(h) ==
    {"attempts", "elapsed", "name", "details"}
      \cup (IF h > 1 THEN {"hints"} ELSE {})

\* what the victory message reports
WonReport(h) ==
    {"attempts", "elapsed", "name", "details"}
      \cup (IF h > 0 THEN {"hints"} ELSE {})

\* the name column of the row printed for a scored guess
ScoredName(guessIndex, targetIndex) ==
    compareWithTarget(players[guessIndex], players[targetIndex]).Name

\* the text of the name hint printed after a scored guess
NameHintText(targetName, level) ==
    IF level = 0 THEN <<>> ELSE getNameHint(targetName, level)

Quiet == [prompt |-> FALSE, row |-> FALSE, nameHint |-> 0, hintAttr |-> "none",
          alloc |-> FALSE, msg |-> "none", text |-> <<>>, report |-> {},
          nameField |-> <<>>]

----------------------------------------------------------------------------
(* The session: main                                                       *)

Init ==
    /\ pc = "top"
    /\ outcome = "Active"
    /\ target \in 1..Len(players)
    /\ attempts = 0
    /\ hintsUsed = 0
    /\ usedHintAttributes = {}
    /\ now = 0
    /\ readers = 0
    /\ inputChan = <<>>
    /\ stdinClosed = FALSE
    /\ scanFailed = FALSE
    /\ timerFired = FALSE
    /\ lateArrival = FALSE
    /\ promptNo = 0
    /\ nameHintsShown = {}
    /\ out = Quiet
    /\ allocCalls = 0
    /\ call = NoCall

\* the wall clock advances while the process runs
Tick ==
    /\ pc \notin {"done", "alloc"}
    /\ now < gameEndTime + MaxOverrun
    /\ now' = now + 1
    /\ UNCHANGED <<pc, outcome, target, attempts, hintsUsed, usedHintAttributes,
                   readers, inputChan, stdinClosed, scanFailed, timerFired,
                   lateArrival, promptNo, nameHintsShown, out, allocCalls, call>>

\* loop condition, time check, prompt, fresh channel, reader goroutine started
LoopTop ==
    /\ pc = "top"
    /\ IF ~LoopCondition(attempts)
       THEN /\ pc' = "done"
            /\ outcome' = "FellOut"
            /\ out' = Quiet
            /\ UNCHANGED <<promptNo, inputChan, readers>>
       ELSE IF TimeIsUp(now)
       THEN /\ pc' = "done"
            /\ outcome' = "LostByTime"
            /\ out' = [Quiet EXCEPT !.msg = "timesup",
                                    !.report = {"elapsed", "name", "details"}]
            /\ UNCHANGED <<promptNo, inputChan, readers>>
       ELSE /\ pc' = "select"
            /\ outcome' = outcome
            /\ out' = [Quiet EXCEPT !.prompt = TRUE, !.msg = "prompt"]
            /\ promptNo' = attempts + 1
            /\ inputChan' = <<>>
            /\ readers' = readers + 1
    /\ UNCHANGED <<target, attempts, hintsUsed, usedHintAttributes, now,
                   stdinClosed, scanFailed, timerFired, lateArrival,
                   nameHintsShown, allocCalls, call>>

\* main reaches the select: the timer is created with time.Until(gameEndTime);
\* a case that can proceed is taken, any of them when both can; a timer of
\* duration <= 0 may or may not have delivered by the time the cases are
\* polled; with no case ready main blocks
EnterSelect ==
    /\ pc = "select"
    /\ \/ /\ Len(inputChan) > 0
          /\ pc' = "recv"
          /\ UNCHANGED timerFired
       \/ /\ now >= gameEndTime
          /\ pc' = "timeout"
          /\ timerFired' = TRUE
       \/ /\ Len(inputChan) = 0
          /\ pc' = "blocked"
          /\ UNCHANGED timerFired
    /\ UNCHANGED <<outcome, target, attempts, hintsUsed, usedHintAttributes, now,
                   readers, inputChan, stdinClosed, scanFailed, lateArrival,
                   promptNo, nameHintsShown, out, allocCalls, call>>

\* the reader goroutine: scanner.Scan() returns and the line is sent; a
\* blocked select is completed by the send
Send(line, failed) ==
    /\ Len(inputChan) < inputChanCap
    /\ inputChan' = Append(inputChan, line)
    /\ readers' = readers - 1
    /\ scanFailed' = failed
    /\ stdinClosed' = (stdinClosed \/ failed)
    /\ lateArrival' = (lateArrival \/ timerFired)
    /\ pc' = IF pc = "blocked" THEN "recv" ELSE pc
    /\ UNCHANGED <<outcome, target, attempts, hintsUsed, usedHintAttributes, now,
                   timerFired, promptNo, nameHintsShown, out, allocCalls, call>>

ReaderScanLine ==
    /\ pc \in {"select", "blocked", "timeout"}
    /\ readers > 0
    /\ ~stdinClosed
    /\ \E text \in Lines : Send(ScanSend(TRUE, text), FALSE)

ReaderScanFails ==
    /\ pc \in {"select", "blocked", "timeout"}
    /\ readers > 0
    /\ Send(ScanSend(FALSE, <<>>), TRUE)

\* the timer delivers while main is blocked in the select
TimerFire ==
    /\ pc = "blocked"
    /\ now >= gameEndTime
    /\ pc' = "timeout"
    /\ timerFired' = TRUE
    /\ UNCHANGED <<outcome, target, attempts, hintsUsed, usedHintAttributes, now,
                   readers, inputChan, stdinClosed, scanFailed, lateArrival,
                   promptNo, nameHintsShown, out, allocCalls, call>>

\* case <-time.After(...)
Timeout ==
    /\ pc = "timeout"
    /\ pc' = AfterTimer.pc
    /\ outcome' = AfterTimer.outcome
    /\ out' = [Quiet EXCEPT !.msg = "timesup", !.report = {"name", "details"}]
    /\ UNCHANGED <<target, attempts, hintsUsed, usedHintAttributes, now,
                   readers, inputChan, stdinClosed, scanFailed, timerFired,
                   lateArrival, promptNo, nameHintsShown, allocCalls, call>>

\* the line received by case guess := <-inputChan, trimmed
Guess == IF inputChan = <<>> THEN <<>> ELSE TrimSpace(Head(inputChan))

HandleQuit ==
    /\ pc = "recv"
    /\ IsQuit(Guess)
    /\ pc' = "done"
    /\ outcome' = "Quit"
    /\ out' = [Quiet EXCEPT !.msg = "quit", !.report = {"name"}]
    /\ UNCHANGED <<target, attempts, hintsUsed, usedHintAttributes, now,
                   readers, inputChan, stdinClosed, scanFailed, timerFired,
                   lateArrival, promptNo, nameHintsShown, allocCalls, call>>

HandleHint ==
    /\ pc = "recv"
    /\ ~IsQuit(Guess)
    /\ IsHint(Guess)
    /\ pc' = "top"
    /\ IF HintBudgetExhausted(hintsUsed)
       THEN /\ out' = [Quiet EXCEPT !.msg = "nohints"]
            /\ UNCHANGED <<hintsUsed, usedHintAttributes>>
       ELSE \E r \in showUniqueRandomAttributeHint(usedHintAttributes) :
            /\ usedHintAttributes' = r.used
            /\ hintsUsed' = IF r.given THEN hintsUsed + 1 ELSE hintsUsed
            /\ out' = [Quiet EXCEPT !.alloc = TRUE, !.hintAttr = r.attr,
                                    !.msg = IF r.given THEN "hint" ELSE "exhausted"]
    /\ UNCHANGED <<outcome, target, attempts, now, readers, inputChan,
                   stdinClosed, scanFailed, timerFired, lateArrival, promptNo,
                   nameHintsShown, allocCalls, call>>

HandleGuess ==
    /\ pc = "recv"
    /\ ~IsQuit(Guess)
    /\ ~IsHint(Guess)
    /\ LET r == findPlayerByName(Guess)
           att == AttemptsAfterGuess(attempts, r.found)
       IN  /\ attempts' = att
           /\ IF ~r.found
              THEN /\ pc' = "top"
                   /\ out' = [Quiet EXCEPT !.msg = "notfound"]
                   /\ UNCHANGED <<outcome, nameHintsShown>>
              ELSE IF GuessVerdict(IsCorrect(r.index, target), att) = "Won"
              THEN /\ pc' = "done"
                   /\ outcome' = "Won"
                   /\ out' = [Quiet EXCEPT !.row = TRUE, !.msg = "win",
                                           !.nameField = ScoredName(r.index, target),
                                           !.report = WonReport(hintsUsed)]
                   /\ UNCHANGED nameHintsShown
              ELSE IF GuessVerdict(IsCorrect(r.index, target), att) = "LostByAttempts"
              THEN /\ pc' = "done"
                   /\ outcome' = "LostByAttempts"
                   /\ out' = [Quiet EXCEPT !.row = TRUE, !.msg = "gameover",
                                           !.nameField = ScoredName(r.index, target),
                                           !.report = {"attempts", "elapsed",
                                                       "name", "details"}]
                   /\ UNCHANGED nameHintsShown
              ELSE /\ pc' = "top"
                   /\ out' = [Quiet EXCEPT !.row = TRUE, !.msg = "row",
                                           !.nameField = ScoredName(r.index, target),
                                           !.nameHint = NameHintLevel(att),
                                           !.text = NameHintText(players[target].Name,
                                                                 NameHintLevel(att))]
                   /\ nameHintsShown' = nameHintsShown \cup
                                          ({NameHintLevel(att)} \ {0})
                   /\ UNCHANGED outcome
    /\ UNCHANGED <<target, hintsUsed, usedHintAttributes, now, readers,
                   inputChan, stdinClosed, scanFailed, timerFired, lateArrival,
                   promptNo, allocCalls, call>>

Next ==
    \/ Tick
    \/ LoopTop
    \/ EnterSelect
    \/ ReaderScanLine
    \/ ReaderScanFails
    \/ TimerFire
    \/ Timeout
    \/ HandleQuit
    \/ HandleHint
    \/ HandleGuess

Spec == Init /\ [][Next]_vars

----------------------------------------------------------------------------
(* The session with a clock that advances                                  *)

\* lines typed in the sessions checked for termination: quit, hint, a name
\* that resolves to no player and a name that resolves to one
LiveLines == {LineQuit, LineHint, LineJo, LineJor}

ReaderScanLiveLine ==
    /\ pc \in {"select", "blocked", "timeout"}
    /\ readers > 0
    /\ ~stdinClosed
    /\ \E text \in LiveLines : Send(ScanSend(TRUE, text), FALSE)

NextLive ==
    \/ Tick
    \/ LoopTop
    \/ EnterSelect
    \/ ReaderScanLiveLine
    \/ ReaderScanFails
    \/ TimerFire
    \/ Timeout
    \/ HandleQuit
    \/ HandleHint
    \/ HandleGuess

\* the steps of the main goroutine but for the scoring of a guess
MainStep ==
    \/ LoopTop
    \/ EnterSelect
    \/ TimerFire
    \/ Timeout
    \/ HandleQuit
    \/ HandleHint

\* the guard of HandleGuess, which is ENABLED <<HandleGuess>>_vars: the step
\* always changes pc
GuessReady == pc = "recv" /\ ~IsQuit(Guess) /\ ~IsHint(Guess)

\* WF_vars(HandleGuess), with its ENABLED written as GuessReady
HandleGuessFair == []<>(~GuessReady) \/ []<><<HandleGuess>>_vars

\* the wall clock advances and the main goroutine runs whenever it can; the
\* reader goroutine may never deliver a line
SpecLive ==
    /\ Init /\ [][NextLive]_vars
    /\ WF_vars(Tick) /\ WF_vars(MainStep) /\ HandleGuessFair

----------------------------------------------------------------------------
(* The allocator on its own: showUniqueRandomAttributeHint called again    *)
(* and again on one map, starting from the empty map                       *)

InitAlloc ==
    /\ pc = "alloc"
    /\ outcome = "Active"
    /\ target \in 1..Len(players)
    /\ attempts = 0
    /\ hintsUsed = 0
    /\ usedHintAttributes = {}
    /\ now = 0
    /\ readers = 0
    /\ inputChan = <<>>
    /\ stdinClosed = FALSE
    /\ scanFailed = FALSE
    /\ timerFired = FALSE
    /\ lateArrival = FALSE
    /\ promptNo = 0
    /\ nameHintsShown = {}
    /\ out = Quiet
    /\ allocCalls = 0
    /\ call = NoCall

AllocCall ==
    /\ pc = "alloc"
    /\ allocCalls < MaxAllocCalls
    /\ \E r \in showUniqueRandomAttributeHint(usedHintAttributes) :
        /\ usedHintAttributes' = r.used
        /\ out' = [Quiet EXCEPT !.alloc = TRUE, !.hintAttr = r.attr,
                                !.msg = IF r.given THEN "hint" ELSE "exhausted"]
    /\ allocCalls' = allocCalls + 1
    /\ UNCHANGED <<pc, outcome, target, attempts, hintsUsed, now, readers,
                   inputChan, stdinClosed, scanFailed, timerFired, lateArrival,
                   promptNo, nameHintsShown, call>>

NextAlloc == AllocCall

SpecAlloc == InitAlloc /\ [][NextAlloc]_vars

----------------------------------------------------------------------------
(* Functions called on their own                                           *)

\* the state of a run that only calls one function
InitCall(position) ==
    /\ pc = position
    /\ outcome = "Active"
    /\ target = 1
    /\ attempts = 0
    /\ hintsUsed = 0
    /\ usedHintAttributes = {}
    /\ now = 0
    /\ readers = 0
    /\ inputChan = <<>>
    /\ stdinClosed = FALSE
    /\ scanFailed = FALSE
    /\ timerFired = FALSE
    /\ lateArrival = FALSE
    /\ promptNo = 0
    /\ nameHintsShown = {}
    /\ out = Quiet
    /\ allocCalls = 0

\* the session keeps its state while a function is called on its own
SessionUnchanged ==
    UNCHANGED <<pc, outcome, target, attempts, hintsUsed, usedHintAttributes,
                now, readers, inputChan, stdinClosed, scanFailed, timerFired,
                lateArrival, promptNo, nameHintsShown, out, allocCalls>>

DraftYears == players[1].DraftYear .. (players[1].DraftYear + YearSpan)

\* the records compared: a fallback record with its draft data replaced
ComparedPlayers ==
    {[players[i] EXCEPT !.DraftYear = y, !.DraftRound = r, !.DraftNumber = n] :
        i \in 1..Len(players), y \in DraftYears, r \in 0..MaxRound, n \in 0..MaxPick}

ComparedTargets == {p \in ComparedPlayers : p.Name = players[1].Name}

InitCompare ==
    /\ InitCall("compare")
    /\ \E g \in ComparedPlayers, t \in ComparedTargets :
          call = [fn |-> "compareWithTarget", guess |-> g, target |-> t,
                  done |-> FALSE, result |-> <<>>]

CompareCall ==
    /\ pc = "compare"
    /\ ~call.done
    /\ call' = [call EXCEPT !.done = TRUE,
                            !.result = compareWithTarget(call.guess, call.target)]
    /\ SessionUnchanged

NextCompare == CompareCall

SpecCompare == InitCompare /\ [][NextCompare]_vars

\* names of the directories searched on their own: two fallback names, a
\* name of two letters, a name of one word, a name that contains it, and a
\* name that differs from a fallback name in the case of one letter
NameYi == <<"Y","i">>

NameNene == <<"N","e","n","e">>

NameNeneHilario == <<"N","e","n","e"," ","H","i","l","a","r","i","o">>

NameLebron == <<"L","e","b","r","o","n"," ","J","a","m","e","s">>

SearchedNames ==
    {NameLeBron, NameJordan, NameYi, NameNene, NameNeneHilario, NameLebron}

SearchedDirectories ==
    UNION {[1..n -> {[players[1] EXCEPT !.Name = nm] : nm \in SearchedNames}] :
              n \in 1..MaxDirLen}

Queries ==
    { <<"l","e","b","r","o","n"," ","j","a","m","e","s">>,
      <<" "," ","L","E","B","R","O","N"," ","J","A","M","E","S","\t">>,
      <<"M","i","c","h","a","e","l"," ","J","o","r","d","a","n">>,
      <<"j","o">>, <<"J","o","r">>, <<" ","j","a","m"," ">>, <<"a","n">>,
      <<"y","i">>, <<"Y","I"," ","J","i","a","n","l","i","a","n">>,
      <<"n","e">>, <<"N","E","N">>, <<"n","e","n","e"," ","h","i","l","a","r","i","o">>,
      <<"x","y","z">>, <<>> }

InitFind ==
    /\ InitCall("find")
    /\ \E d \in SearchedDirectories, q \in Queries :
          call = [fn |-> "findPlayerByName", dir |-> d, name |-> q,
                  done |-> FALSE, result |-> NotFound]

FindCall ==
    /\ pc = "find"
    /\ ~call.done
    /\ call' = [call EXCEPT !.done = TRUE,
                            !.result = findPlayerByNameIn(call.dir, call.name)]
    /\ SessionUnchanged

NextFind == FindCall

SpecFind == InitFind /\ [][NextFind]_vars

\* the names hinted on their own: parts that are the first letters of a long
\* surname or the parts of the first fallback name, put together with one or
\* two blanks, with or without a blank in front
LongPart == <<"A","n","t","e","t","o","k","o","u","n","m","p","o">>

HintedParts ==
    {SubSeq(LongPart, 1, k) : k \in 1..MaxPartLen}
      \cup {SubSeq(NameLeBron, 1, 6), SubSeq(NameLeBron, 8, 12)}

HintedPartLists == UNION {[1..n -> HintedParts] : n \in 1..MaxParts}

Blanks == {<<" ">>, <<" ", " ">>}

InitNameHint ==
    /\ InitCall("namehint")
    /\ \E parts \in HintedPartLists, sep \in Blanks, lead \in {<<>>, <<" ">>},
          level \in {1, 2} :
          call = [fn |-> "getNameHint", parts |-> parts,
                  fullName |-> lead \o Join(parts, sep), hintLevel |-> level,
                  done |-> FALSE, result |-> <<>>]

NameHintCall ==
    /\ pc = "namehint"
    /\ ~call.done
    /\ call' = [call EXCEPT !.done = TRUE,
                            !.result = getNameHint(call.fullName, call.hintLevel)]
    /\ SessionUnchanged

NextNameHint == NameHintCall

SpecNameHint == InitNameHint /\ [][NextNameHint]_vars

\* one turn of main on a received line, for a directory and a target drawn
\* from it, with attempts and time remaining: quit, hint, lookup, attempts++,
\* win check, attempts check
TurnOn(dir, targetIndex, line, att) ==
    LET guess == TrimSpace(line)
        r == findPlayerByNameIn(dir, guess)
    IN  IF IsQuit(guess)
        THEN [outcome |-> "Quit", found |-> FALSE, index |-> 0, attempts |-> att]
        ELSE IF IsHint(guess) \/ ~r.found
        THEN [outcome |-> "Active", found |-> FALSE, index |-> 0, attempts |-> att]
        ELSE [outcome |-> GuessVerdict(dir[r.index].Name = dir[targetIndex].Name,
                                       att + 1),
              found |-> TRUE, index |-> r.index, attempts |-> att + 1]

\* the target's name typed as it is spelled, as the first line of a session
InitSubmit ==
    /\ InitCall("submit")
    /\ \E d \in SearchedDirectories :
       \E t \in 1..Len(d) :
          call = [fn |-> "main", dir |-> d, target |-> t, line |-> d[t].Name,
                  done |-> FALSE,
                  result |-> [outcome |-> "Active", found |-> FALSE, index |-> 0,
                              attempts |-> 0]]

SubmitCall ==
    /\ pc = "submit"
    /\ ~call.done
    /\ call' = [call EXCEPT !.done = TRUE,
                            !.result = TurnOn(call.dir, call.target, call.line, 0)]
    /\ SessionUnchanged

NextSubmit == SubmitCall

SpecSubmit == InitSubmit /\ [][NextSubmit]_vars

----------------------------------------------------------------------------
(* Properties                                                              *)

Terminal == {"Won", "LostByAttempts", "LostByTime", "Quit"}

\* the step of main that processes the line it received
HandlesInput == pc = "recv" /\ pc' # "recv"

IsGuessLine == ~IsQuit(Guess) /\ ~IsHint(Guess)

Resolved == IsGuessLine /\ findPlayerByName(Guess).found

ResolvedName == players[findPlayerByName(Guess).index].Name

\* C1: the attempt counter changes only by +1 and only on a turn whose input
\* resolves to a known player; a turn whose input is an unresolved name,
\* "hint" or "quit" leaves it unchanged.
C1_AttemptsOnlyOnResolvedGuess ==
    [][ /\ (attempts' # attempts) =>
              (attempts' = attempts + 1 /\ HandlesInput /\ Resolved)
        /\ (HandlesInput /\ ~Resolved) => attempts' = attempts
      ]_vars

C1_Witness ==
    attempts = 2 /\ hintsUsed = 1 /\ pc = "top" /\ out.msg = "notfound"

\* C2: the hint counter changes only by +1 and only on a "hint" turn in which
\* the allocator prints an attribute that was not in the revealed set and
\* adds it; an exhausted allocator leaves it unchanged; no attribute that is
\* already in the revealed set is ever printed.
C2_HintsOnlyOnNewAttribute ==
    [][ /\ (hintsUsed' # hintsUsed) =>
              /\ hintsUsed' = hintsUsed + 1
              /\ HandlesInput /\ IsHint(Guess) /\ ~IsQuit(Guess)
              /\ out'.hintAttr \notin usedHintAttributes
              /\ usedHintAttributes' = usedHintAttributes \cup {out'.hintAttr}
        /\ (HandlesInput /\ out'.msg = "exhausted") =>
              UNCHANGED <<hintsUsed, usedHintAttributes>>
        /\ (HandlesInput /\ out'.hintAttr # "none") =>
              out'.hintAttr \notin usedHintAttributes
        /\ (usedHintAttributes' # usedHintAttributes) => hintsUsed' # hintsUsed
      ]_vars

C2_Witness ==
    hintsUsed = 3 /\ out.msg = "hint" /\ Cardinality(usedHintAttributes) = 3

\* C3: once the timer has delivered while main waits in the select, the next
\* step of main ends the session as LostByTime whatever the attempt counter
\* is; a line that arrives once the timer has delivered is never received:
\* the attempt counter does not change and no comparison is run.
C3_TimerWinsTheRace ==
    /\ [](pc = "timeout" => timerFired)
    /\ [][ (pc = "timeout" /\ pc' # "timeout") =>
              (pc' = "done" /\ outcome' = "LostByTime") ]_vars
    /\ [][ timerFired =>
              /\ attempts' = attempts
              /\ pc # "recv" /\ pc' # "recv"
              /\ (out' # out => ~out'.row) ]_vars

C3_Witness ==
    /\ outcome = "LostByTime" /\ timerFired /\ lateArrival
    /\ inputChan = <<LineLeBron>> /\ attempts = 5

\* C4: the 8th guess that resolves to a player other than the target ends the
\* session as LostByAttempts in that very step, and with 8 attempts used no
\* prompt is issued and no reader is started.
C4_LostAfterEighthGuess ==
    /\ [](promptNo <= maxAttempts)
    /\ [](attempts = maxAttempts => (pc = "done" /\ readers = 0))
    /\ [][ (HandlesInput /\ Resolved /\ attempts = maxAttempts - 1
              /\ ResolvedName # players[target].Name) =>
              (outcome' = "LostByAttempts" /\ pc' = "done"
                 /\ attempts' = maxAttempts) ]_vars
    /\ [][ attempts = maxAttempts =>
              (promptNo' = promptNo /\ readers' = readers /\ pc' = "done") ]_vars

C4_Witness ==
    outcome = "LostByAttempts" /\ attempts = 8 /\ now < gameEndTime /\ promptNo = 8

\* C5: when the first resolved guess of a session resolves to a record with
\* the target's name, the session is Won with attempt counter 1 and no name
\* hint of either level has been displayed.
C5_WinOnFirstGuess ==
    [][ (HandlesInput /\ Resolved /\ attempts = 0
           /\ ResolvedName = players[target].Name) =>
           /\ outcome' = "Won" /\ pc' = "done"
           /\ attempts' = 1
           /\ out'.nameHint = 0 /\ nameHintsShown' = {} ]_vars

C5_Witness ==
    outcome = "Won" /\ attempts = 1 /\ nameHintsShown = {} /\ hintsUsed = 2

\* C6 (as claimed): a failed read of the input stream ends the session: the
\* step that processes it reaches a terminal state.
C6_FailedReadEndsSession ==
    [][ (HandlesInput /\ scanFailed) =>
           (pc' = "done" /\ outcome' \in Terminal) ]_vars

\* C7 (as claimed): at the start of a turn with remaining time <= 0 the
\* session becomes LostByTime with no prompt issued and no reader started.
C7_NoPromptAtOrPastDeadline ==
    [][ (pc = "top" /\ pc' # "top" /\ attempts < maxAttempts
           /\ gameEndTime - now <= 0) =>
           (outcome' = "LostByTime" /\ ~out'.prompt /\ readers' = readers) ]_vars

\* C8: from the empty map, each of the first 9 calls of the allocator prints
\* an attribute not printed before and adds it to the map; the 10th call
\* reports exhaustion and leaves the map unchanged.
C8_NineDistinctThenExhausted ==
    /\ [](allocCalls <= 9 => Cardinality(usedHintAttributes) = allocCalls)
    /\ [](allocCalls >= 10 => (out.msg = "exhausted"
                                 /\ Cardinality(usedHintAttributes) = 9))
    /\ [][ (allocCalls' = allocCalls + 1) =>
              IF allocCalls < 9
              THEN /\ out'.msg = "hint"
                   /\ out'.hintAttr \notin usedHintAttributes
                   /\ usedHintAttributes' = usedHintAttributes \cup {out'.hintAttr}
              ELSE /\ out'.msg = "exhausted" /\ out'.hintAttr = "none"
                   /\ usedHintAttributes' = usedHintAttributes ]_vars

C8_Witness ==
    allocCalls = 10 /\ out.msg = "exhausted" /\ Cardinality(usedHintAttributes) = 9

\* C9: a "hint" turn taken with the hint counter at maxHints changes neither
\* the attempt counter, the hint counter nor the revealed set, does not call
\* the allocator, and leaves the session Active at the top of the loop.
C9_HintAtBudgetChangesNothing ==
    [][ (HandlesInput /\ IsHint(Guess) /\ ~IsQuit(Guess) /\ hintsUsed >= maxHints) =>
           /\ UNCHANGED <<attempts, hintsUsed, usedHintAttributes, nameHintsShown>>
           /\ ~out'.alloc /\ out'.hintAttr = "none"
           /\ outcome' = "Active" /\ pc' = "top" ]_vars

C9_Witness ==
    out.msg = "nohints" /\ hintsUsed = maxHints /\ pc = "top" /\ outcome = "Active"

C11_TerminalStatesAbsorbing ==
    /\ [](outcome \in Terminal => pc = "done")
    /\ [][ (outcome \in Terminal) =>
              (outcome' = outcome /\ pc' = pc /\
               UNCHANGED <<attempts, hintsUsed, usedHintAttributes,
                           nameHintsShown, promptNo, readers, inputChan, out>>) ]_vars

C11_Witness ==
    outcome = "LostByTime" /\ pc = "done" /\ readers = 1 /\ attempts = 3

Compared == call.fn = "compareWithTarget" /\ call.done

\* the circle that opens a field, and the text after the circle and the space
Verdict(field) == field[1]

Rendered(field) == SubSeq(field, 3, Len(field))

Distance(g, t) == IF g >= t THEN g - t ELSE t - g

\* C12: for draft years g (guess) and t (target) the draftYear field is Exact
\* iff g = t, Close iff 0 < |g - t| <= 2, and None iff |g - t| > 2.
C12_DraftYearVerdict ==
    Compared =>
        LET d == Distance(call.guess.DraftYear, call.target.DraftYear)
            v == Verdict(call.result.DraftYear)
        IN  /\ v \in {Green, Yellow, Red}
            /\ (v = Green) <=> (d = 0)
            /\ (v = Yellow) <=> (0 < d /\ d <= 2)
            /\ (v = Red) <=> (d > 2)

C12_Witness ==
    /\ Compared
    /\ Distance(call.guess.DraftYear, call.target.DraftYear) = 3
    /\ Verdict(call.result.DraftYear) = Red

\* C13: for draft numbers g (guess) and t (target): when both are nonzero the
\* verdict is Close iff 0 < |g - t| <= 5; when exactly one of them is 0 the
\* verdict is None.
C13_DraftNumberVerdict ==
    Compared =>
        LET g == call.guess.DraftNumber
            t == call.target.DraftNumber
            v == Verdict(call.result.DraftNumber)
        IN  /\ (g # 0 /\ t # 0) =>
                  ((v = Yellow) <=> (0 < Distance(g, t) /\ Distance(g, t) <= 5))
            /\ ((g = 0) # (t = 0)) => v = Red

C13_Witness ==
    /\ Compared
    /\ call.guess.DraftNumber = 0 /\ call.target.DraftNumber = 3
    /\ Verdict(call.result.DraftNumber) = Red

\* C14: with both draft rounds 0 the draftRound field is Exact and reads
\* "Undrafted"; with both draft numbers 0 the draftNumber field is Exact and
\* reads "N/A"; a guessed draft round or draft number of 0 is never rendered
\* as "0", whatever the verdict.
C14_UndraftedRendering ==
    Compared =>
        /\ (call.guess.DraftRound = 0 /\ call.target.DraftRound = 0) =>
              call.result.DraftRound = <<Green, " ">> \o Undrafted
        /\ (call.guess.DraftNumber = 0 /\ call.target.DraftNumber = 0) =>
              call.result.DraftNumber = <<Green, " ">> \o NotApplicable
        /\ (call.guess.DraftRound = 0) =>
              Rendered(call.result.DraftRound) # <<"0">>
        /\ (call.guess.DraftNumber = 0) =>
              Rendered(call.result.DraftNumber) # <<"0">>

C14_Witness ==
    /\ Compared
    /\ call.guess.DraftRound = 0 /\ call.target.DraftRound = 2
    /\ call.guess.DraftNumber = 0 /\ call.target.DraftNumber = 0
    /\ Verdict(call.result.DraftRound) = Red

Searched == call.fn = "findPlayerByName" /\ call.done

\* the query as typed but for surrounding blanks, and the names of the
\* directory, compared letter by letter without regard to case
SameLetters(a, b) ==
    /\ Len(a) = Len(b)
    /\ \A i \in 1..Len(a) :
          \/ a[i] = b[i]
          \/ \E k \in 1..Len(UpperLetters) :
                {a[i], b[i]} = {UpperLetters[k], LowerLetters[k]}

Stripped(q) ==
    LET inner == {i \in 1..Len(q) : q[i] # " " /\ q[i] # "\t"}
    IN  IF inner = {} THEN <<>>
        ELSE [i \in 1..((CHOOSE m \in inner : \A j \in inner : j <= m)
                         - (CHOOSE m \in inner : \A j \in inner : m <= j) + 1) |->
                 q[i + (CHOOSE m \in inner : \A j \in inner : m <= j) - 1]]

IsPartOf(a, b) ==
    \E i \in 1..(Len(b) - Len(a) + 1) :
        \A k \in 1..Len(a) : SameLetters(<<a[k]>>, <<b[i + k - 1]>>)

\* C15: the query is trimmed and compared without regard to case: a query
\* that equals a record's name up to case is found and resolves to a record
\* of that name; a record found without such an equality contains the query
\* or is contained in it, and the shorter of the two has at least 3
\* characters; a 2-character query that is part of a name and equals no name
\* is not found, and a 3-character query that is part of a name is found.
C15_FindFloorOfThree ==
    Searched =>
        LET q == Stripped(call.name)
            names == [i \in 1..Len(call.dir) |-> call.dir[i].Name]
            equal == {i \in 1..Len(names) : SameLetters(names[i], q)}
            within == {i \in 1..Len(names) : IsPartOf(q, names[i])}
            r == call.result
        IN  /\ (equal # {}) => (r.found /\ r.index \in equal)
            /\ (r.found /\ equal = {}) =>
                  \/ IsPartOf(q, names[r.index]) /\ Len(q) >= 3
                  \/ IsPartOf(names[r.index], q) /\ Len(names[r.index]) >= 3
            /\ (Len(q) = 2 /\ within # {} /\ equal = {}) => ~r.found
            /\ (Len(q) = 3 /\ within # {}) => r.found

C15_Witness ==
    /\ Searched
    /\ call.name = <<"j","o">>
    /\ call.dir[1].Name = NameJordan
    /\ ~call.result.found

Hinted == call.fn = "getNameHint" /\ call.done

\* the letters of a part that the pattern shows, by the part's length
Shown(n) == IF n <= 3 THEN 1 ELSE IF n <= 5 THEN 2 ELSE 3

\* a part as the pattern shows it: its first letters, an underscore in the
\* place of every other letter, and the count of its letters
ExpectedPattern(part) ==
    [i \in 1..Len(part) |-> IF i <= Shown(Len(part)) THEN part[i] ELSE "_"]
      \o <<" ", "(">> \o Itoa(Len(part))
      \o <<" ", "l", "e", "t", "t", "e", "r", "s", ")">>

RECURSIVE Spaced(_)
Spaced(texts) ==
    IF Len(texts) = 1 THEN texts[1]
    ELSE texts[1] \o <<" ">> \o Spaced(Tail(texts))

PatternLeBronJames ==
    <<"L","e","B","_","_","_"," ","(","6"," ","l","e","t","t","e","r","s",")"," ",
      "J","a","_","_","_"," ","(","5"," ","l","e","t","t","e","r","s",")">>

PatternLeBronJamesReadme ==
    <<"L","e","b","_","_","_","_"," ","(","6"," ","l","e","t","t","e","r","s",")"," ",
      "J","a","m","_","_"," ","(","5"," ","l","e","t","t","e","r","s",")">>

ShowsPatternOfLeBron ==
    out.nameHint = 2 /\ players[target].Name = NameLeBron

Reported == outcome = "Won" /\ out.msg = "win"

\* C18 (as claimed): on Won the output reports the attempt count, the
\* elapsed time, the number of hints used and the target's details, whatever
\* the hint counter is.
C18_WonReportsHintsAlways ==
    Reported => {"attempts", "elapsed", "hints", "details"} \subseteq out.report

\* C18 (amended): on Won the output reports the attempt count, the elapsed
\* time and the target's details, and it reports the number of hints used
\* exactly when the hint counter is above 0.
C18_WonReport ==
    /\ (outcome = "Won") => Reported
    /\ Reported =>
          /\ {"attempts", "elapsed", "details"} \subseteq out.report
          /\ ("hints" \in out.report) <=> (hintsUsed > 0)

C18_Witness ==
    Reported /\ hintsUsed = 0 /\ "hints" \notin out.report /\ attempts = 2

\* the message each terminal outcome is announced with
Announcement(o) ==
    CASE o = "Won" -> "win"
      [] o = "LostByAttempts" -> "gameover"
      [] o = "LostByTime" -> "timesup"
      [] o = "Quit" -> "quit"
      [] OTHER -> "none"

\* C19: the session loop stops only in Won, LostByAttempts, LostByTime or
\* Quit, the step that stops it prints that outcome's announcement, and the
\* loop never stops by its condition attempts < maxAttempts being false.
C19_StopsOnlyByAnnouncedOutcome ==
    /\ [](pc = "done" => outcome \in Terminal)
    /\ [](pc = "top" => LoopCondition(attempts))
    /\ [][ (pc # "done" /\ pc' = "done") =>
              (outcome' \in Terminal /\ out'.msg = Announcement(outcome')) ]_vars

C19_Witness ==
    pc = "done" /\ outcome = "Quit" /\ out.msg = "quit" /\ attempts = 7

\* C20: in every reachable state of the session the attempt counter is
\* within 0..8 and the hint counter within 0..3, and the attempt number a
\* prompt displays is attempts + 1 and within 1..8.
C20_CountersInRange ==
    /\ attempts \in 0..maxAttempts
    /\ hintsUsed \in 0..maxHints
    /\ promptNo \in 0..maxAttempts
    /\ out.prompt => (promptNo = attempts + 1 /\ promptNo \in 1..maxAttempts)

C20_Witness ==
    out.prompt /\ promptNo = 8 /\ attempts = 7 /\ hintsUsed = 3 /\ pc = "select"

\* C21: the 8th resolved guess ends the session as Won, with attempt counter
\* 8, when its record has the target's name, and as LostByAttempts when it
\* has another name; LostByAttempts is reached in no other way.
C21_WinCheckBeforeAttemptsCheck ==
    /\ [][ (HandlesInput /\ Resolved /\ attempts = maxAttempts - 1) =>
              /\ attempts' = maxAttempts
              /\ pc' = "done"
              /\ outcome' = (IF ResolvedName = players[target].Name
                             THEN "Won" ELSE "LostByAttempts") ]_vars
    /\ [][ (outcome' = "LostByAttempts" /\ outcome # "LostByAttempts") =>
              /\ HandlesInput /\ Resolved
              /\ attempts = maxAttempts - 1
              /\ ResolvedName # players[target].Name ]_vars

C21_Witness ==
    outcome = "Won" /\ attempts = maxAttempts /\ promptNo = maxAttempts /\ pc = "done"

\* the least index of a non-empty set of indices
Earliest(S) == CHOOSE i \in S : \A j \in S : i <= j

\* C22: when some record's name equals the trimmed query without regard to
\* case, findPlayerByName returns the first such record in directory order,
\* even when an earlier record matches partially; otherwise it returns the
\* first record in directory order whose name contains the query of at
\* least 3 characters or is a name of at least 3 characters the query
\* contains; otherwise it finds nothing.
C22_ExactBeforePartial ==
    Searched =>
        LET q == Stripped(call.name)
            names == [i \in 1..Len(call.dir) |-> call.dir[i].Name]
            equal == {i \in 1..Len(names) : SameLetters(names[i], q)}
            partial == {i \in 1..Len(names) :
                           \/ IsPartOf(q, names[i]) /\ Len(q) >= 3
                           \/ IsPartOf(names[i], q) /\ Len(names[i]) >= 3}
        IN  call.result =
                IF equal # {} THEN [found |-> TRUE, index |-> Earliest(equal)]
                ELSE IF partial # {} THEN [found |-> TRUE, index |-> Earliest(partial)]
                ELSE [found |-> FALSE, index |-> 0]

C22_Witness ==
    /\ Searched
    /\ Len(call.dir) = 2
    /\ call.dir[1].Name = NameNene /\ call.dir[2].Name = NameNeneHilario
    /\ call.name = <<"n","e","n","e"," ","h","i","l","a","r","i","o">>
    /\ call.result = [found |-> TRUE, index |-> 2]

Submitted == call.fn = "main" /\ call.done

\* C23: for every directory and every target drawn from it, the target's
\* name typed verbatim resolves to a record that has the target's name and
\* the session is Won.
C23_TargetNameWins ==
    Submitted =>
        /\ call.result.found
        /\ call.dir[call.result.index].Name = call.dir[call.target].Name
        /\ call.result.outcome = "Won"

\* C24: in every reachable state of the session the number of attributes in
\* the revealed set equals the hint counter.
C24_RevealedCountIsHintCounter ==
    Cardinality(usedHintAttributes) = hintsUsed

C24_Witness ==
    /\ Cardinality(usedHintAttributes) = 2 /\ hintsUsed = 2
    /\ out.msg = "hint" /\ out.hintAttr \in usedHintAttributes /\ attempts = 1

\* C25: during a session every call of the allocator finds an attribute
\* that is not yet revealed and prints it; the allocator's message that all
\* attributes have been revealed is never printed.
C25_AllocatorNeverExhausted ==
    /\ [](out.msg # "exhausted")
    /\ [](Cardinality(usedHintAttributes) <= maxHints)
    /\ [][ (HandlesInput /\ out'.alloc) =>
              /\ Cardinality(usedHintAttributes) < Len(allAttributes)
              /\ out'.msg = "hint"
              /\ out'.hintAttr \notin usedHintAttributes ]_vars

C25_Witness ==
    /\ out.alloc /\ out.msg = "hint"
    /\ hintsUsed = maxHints /\ Cardinality(usedHintAttributes) = maxHints
    /\ attempts = 0 /\ pc = "top"

\* C26: at most one reader goroutine is outstanding at any moment; a reader
\* is started only by the top of the loop, when none is outstanding, and the
\* top of the loop is reached again only by the step that handles the line
\* the previous reader sent.
C26_OneReaderAtATime ==
    /\ [](readers \in {0, 1})
    /\ [](pc = "top" => readers = 0)
    /\ [][ (readers' > readers) =>
              (readers = 0 /\ readers' = 1 /\ pc = "top" /\ pc' = "select") ]_vars
    /\ [][ (pc' = "top" /\ pc # "top") =>
              (HandlesInput /\ Len(inputChan) = 1 /\ readers = 0) ]_vars

C26_Witness ==
    readers = 1 /\ pc = "blocked" /\ promptNo = 5 /\ now = gameEndTime

\* C30: while a reader goroutine is outstanding its channel has room for
\* its send; a channel never holds more than one line, and it receives one
\* send between its creation and the next; a reader whose turn the timer
\* has ended still completes its send.
C30_ReaderSendNeverBlocks ==
    /\ [](readers > 0 => Len(inputChan) < inputChanCap)
    /\ [](Len(inputChan) <= 1)
    /\ [][ (inputChan' # inputChan) =>
              \/ inputChan' = <<>> /\ readers' = readers + 1
              \/ Len(inputChan) = 0 /\ Len(inputChan') = 1 /\ readers' = readers - 1
         ]_vars

C30_Witness ==
    /\ pc = "timeout" /\ timerFired /\ lateArrival
    /\ readers = 0 /\ Len(inputChan) = 1 /\ hintsUsed = 1

\* C28: a step displays a name hint of a level only if that level has not
\* been displayed in the session, and level 2 only if level 1 has been; a
\* turn on an unresolved guess or "hint" taken with the attempt counter at 4
\* or 6 displays no name hint.
C28_NameHintsOnceAndInOrder ==
    /\ [][ \A l \in {1, 2} :
              (HandlesInput /\ out'.nameHint = l) =>
                  /\ l \notin nameHintsShown
                  /\ (l = 2) => (1 \in nameHintsShown)
                  /\ Resolved ]_vars
    /\ [][ (HandlesInput /\ ~Resolved /\ attempts \in {4, 6}) =>
              (out'.nameHint = 0 /\ out'.text = <<>>
                 /\ nameHintsShown' = nameHintsShown) ]_vars

C28_Witness ==
    /\ nameHintsShown = {1, 2} /\ attempts = 6
    /\ out.msg = "notfound" /\ out.nameHint = 0 /\ pc = "top"

GreenRow == out.row /\ Verdict(out.nameField) = Green

\* C29: a step that scores a guess ends the session as Won exactly when the
\* name column of the row it prints is marked green; the session becomes Won
\* by no other step; after a row with a green name the loop has stopped, so
\* no prompt follows; a row with a red name never comes with Won.
C29_WonIffNameGreen ==
    /\ [][ (HandlesInput /\ out'.row) =>
              /\ Verdict(out'.nameField) \in {Green, Red}
              /\ (outcome' = "Won") <=> (Verdict(out'.nameField) = Green)
              /\ (Verdict(out'.nameField) = Red) => (outcome' # "Won") ]_vars
    /\ [][ (outcome' = "Won" /\ outcome # "Won") => (HandlesInput /\ out'.row) ]_vars
    /\ [](GreenRow => (pc = "done" /\ outcome = "Won"))
    /\ [][ GreenRow => (out' = out /\ promptNo' = promptNo) ]_vars

C29_Witness ==
    GreenRow /\ outcome = "Won" /\ attempts = 3 /\ hintsUsed = 2 /\ nameHintsShown = {}

\* C27: with a wall clock that advances, every session reaches a terminal
\* state, whatever lines arrive and whether or not any line arrives.
C27_SessionTerminates == <>(outcome \in Terminal)

C27_Witness ==
    /\ outcome = "LostByTime" /\ pc = "done" /\ stdinClosed
    /\ out.report = {"elapsed", "name", "details"}
    /\ attempts = 0 /\ hintsUsed = maxHints

====
